---- MODULE Spec2Model ----
(***************************************************************************)
(* Base58 / Base58Check codec, the versioned payload container            *)
(* (CBase58Data) and its two specialisations (CBitcoinAddress,            *)
(* CBitcoinSecret) of src/src/base58.cpp.                                  *)
(*                                                                         *)
(* A byte vector is a sequence of integers 0..255.  A C string is a        *)
(* sequence of one-character strings; its terminating NUL is the position  *)
(* one past the end of the sequence.                                       *)
(*                                                                         *)
(* An operator that uses an intermediate result more than once takes it    *)
(* as the parameter of a local operator (LET F(x) == ... IN F(e)), so that *)
(* TLC evaluates e once.                                                   *)
(***************************************************************************)
EXTENDS Integers, Sequences, FiniteSets, TLC

VARIABLES
    pc,         \* the calls the caller has made, in order
    vchIn,      \* the byte vector the caller supplied (kept for reference)
    strIn,      \* the text the caller supplied (kept for reference)
    str,        \* the caller's current std::string
    vch,        \* the caller's current std::vector<unsigned char>
    rc,         \* the bool returned by the last call that returns one
    aborted,    \* "no", or the assert() or subscript that stopped the program
    addr,       \* the caller's CBitcoinAddress: [vchVersion, vchData]
    secret,     \* the caller's CBitcoinSecret: [vchVersion, vchData]
    vchTemp,    \* SetString's local buffer as it is when it is released
    wiped,      \* the indices of vchTemp that OPENSSL_cleanse overwrote
    nVer,       \* nVersionBytes of the last CBase58Data::SetString call
    prev,       \* the object as it was before the last SetString call
    dest,       \* the CTxDestination returned by the last Get()
    keyIn,      \* the CKey given to SetKey()
    key         \* the CKey returned by the last GetKey()

vars == <<pc, vchIn, strIn, str, vch, rc, aborted, addr, secret,
          vchTemp, wiped, nVer, prev, dest, keyIn, key>>

-----------------------------------------------------------------------------
(* Bounds of the model. *)

\* longest caller-supplied byte vector enumerated over SampleBytes
MaxLen == 3
\* longest caller-supplied text enumerated over SampleChars
MaxTextLen == 3
\* longest run of 0xFF bytes / 'z' characters (the worst case for the carry)
MaxRun == 24
\* largest nVersionBytes passed to CBase58Data::SetString
MaxVersionBytes == 2

-----------------------------------------------------------------------------
(* Characters and strings. *)

Chars(s) == [i \in 1..Len(s) |-> SubSeq(s, i, i)]

\* the terminating NUL of a C string
NUL == ""

\* static const char* pszBase58
pszBase58 == Chars("123456789ABCDEFGHJKLMNPQRSTUVWXYZabcdefghijkmnopqrstuvwxyz")

\* *psz for psz pointing at position p of the C string s
CharAt(s, p) == IF p <= Len(s) THEN s[p] ELSE NUL

\* isspace() in the "C" locale (the vertical tab has no TLA+ literal)
isspace(c) == c \in {" ", "\t", "\n", "\f", "\r"}

\* strchr(pszBase58, c) - pszBase58 for c # NUL, or -1 for a NULL result
strchr(c) ==
    IF \E i \in 1..Len(pszBase58) : pszBase58[i] = c
    THEN (CHOOSE i \in 1..Len(pszBase58) : pszBase58[i] = c) - 1
    ELSE -1

\* a vector of n copies of x
Repeat(n, x) == SubSeq([i \in 1..n |-> x], 1, n)

\* the first index at or after i of buf that holds no zero (Len + 1 if none)
RECURSIVE SkipZeroes(_, _)
SkipZeroes(buf, i) ==
    IF i <= Len(buf) /\ buf[i] = 0 THEN SkipZeroes(buf, i + 1) ELSE i

-----------------------------------------------------------------------------
(* bool DecodeBase58(const char* psz, std::vector<unsigned char>& vch) *)

\* while (*psz && isspace(*psz)) psz++;
RECURSIVE SkipSpaces(_, _)
SkipSpaces(psz, p) ==
    IF CharAt(psz, p) # NUL /\ isspace(CharAt(psz, p))
    THEN SkipSpaces(psz, p + 1) ELSE p

SkipOnesNot(psz, p) == p
\* while (*psz == '1') { zeroes++; psz++; }
RECURSIVE SkipOnes(_, _)
SkipOnes(psz, p) ==
    IF CharAt(psz, p) = "1" THEN SkipOnes(psz, p + 1) ELSE p

\* b256(strlen(psz) * 733 / 1000 + 1)
B256Size(len) == (len * 733) \div 1000 + 1

\* one iteration of the reverse_iterator loop, at byte i of the buffer
ApplyB256Byte(s, i) ==
    LET Store(c) == [buf |-> [s.buf EXCEPT ![i] = c % 256], carry |-> c \div 256]
    IN  Store(s.carry + 58 * s.buf[i])

\* its iterations for bytes hi down to lo: b256 = b256 * 58 + carry.  (The
\* range is halved, and the state is read before the second half starts,
\* only to keep TLC's evaluation shallow: the iterations run in order.)
RECURSIVE ApplyB256(_, _, _)
ApplyB256(s, hi, lo) ==
    IF s.carry < 0 \/ hi < lo THEN s
    ELSE IF hi = lo THEN ApplyB256Byte(s, hi)
    ELSE ApplyB256(ApplyB256(s, hi, (lo + hi) \div 2 + 1), (lo + hi) \div 2, lo)

\* one iteration of the character loop at position s.p; s.res is "loop"
\* while the loop runs, "space" once it stopped at the NUL or at a space,
\* "bad" once strchr returned NULL, "assert" once assert(carry == 0) failed
DecodeChar(psz, s) ==
    LET Propagated(r) ==
            IF r.carry = 0
            THEN [res |-> "loop", p |-> s.p + 1, b256 |-> r.buf]
            ELSE [res |-> "assert", p |-> s.p, b256 |-> r.buf]
        Digit(ch) ==
            IF ch = -1 THEN [s EXCEPT !.res = "bad"]
            ELSE Propagated(ApplyB256([buf |-> s.b256, carry |-> ch], Len(s.b256), 1))
        Char(c) ==
            IF c = NUL \/ isspace(c) THEN [s EXCEPT !.res = "space"]
            ELSE Digit(strchr(c))
    IN  IF s.res # "loop" THEN s ELSE Char(CharAt(psz, s.p))

\* up to n iterations of the character loop, one after the other
RECURSIVE DecodeChars(_, _, _)
DecodeChars(psz, s, n) ==
    IF s.res # "loop" \/ n = 0 THEN s
    ELSE IF n = 1 THEN DecodeChar(psz, s)
    ELSE DecodeChars(psz, DecodeChars(psz, s, n \div 2), n - n \div 2)

\* while (isspace(*psz)) psz++;
RECURSIVE SkipTrailing(_, _)
SkipTrailing(psz, p) ==
    IF isspace(CharAt(psz, p)) THEN SkipTrailing(psz, p + 1) ELSE p

TrailingIgnored(psz, p) == TRUE
\* the trailing spaces are skipped and *psz is then the NUL
TrailingOK(psz, p) == CharAt(psz, SkipTrailing(psz, p)) = NUL

B256BeginNoSkip(b256) == 1
\* it = b256.begin(); while (it != b256.end() && *it == 0) it++;
B256Begin(b256) == SkipZeroes(b256, 1)

\* returns the bool, the vector as the call leaves it, and whether the
\* call aborted on assert(carry == 0)
DecodeBase58(psz, vchOld) ==
    LET Copy(zeroes, b256, it) ==
            [rc |-> TRUE, aborted |-> FALSE,
             vch |-> Repeat(zeroes, 0) \o SubSeq(b256, it, Len(b256))]
        Finish(zeroes, d) ==
            IF d.res = "assert" THEN [rc |-> FALSE, vch |-> vchOld, aborted |-> TRUE]
            ELSE IF d.res = "bad" THEN [rc |-> FALSE, vch |-> vchOld, aborted |-> FALSE]
            ELSE IF ~TrailingOK(psz, d.p)
            THEN [rc |-> FALSE, vch |-> vchOld, aborted |-> FALSE]
            ELSE Copy(zeroes, d.b256, B256Begin(d.b256))
        Convert(p1, p2) ==
            Finish(p2 - p1,
                   DecodeChars(psz,
                               [res |-> "loop", p |-> p2,
                                b256 |-> Repeat(B256Size(Len(psz) - p2 + 1), 0)],
                               Len(psz) - p2 + 2))
        Ones(p1) == Convert(p1, SkipOnes(psz, p1))
    IN  Ones(SkipSpaces(psz, 1))

-----------------------------------------------------------------------------
(* std::string EncodeBase58(const unsigned char* pbegin, pend) *)

B58SizeNoGuard(len) == (len * 138) \div 100
\* b58((pend - pbegin) * 138 / 100 + 1)
B58Size(len) == (len * 138) \div 100 + 1

\* one iteration of the reverse_iterator loop, at digit i of the buffer
ApplyB58Digit(s, i) ==
    LET Store(c) == [buf |-> [s.buf EXCEPT ![i] = c % 58], carry |-> c \div 58]
    IN  Store(s.carry + 256 * s.buf[i])

\* its iterations for digits hi down to lo: b58 = b58 * 256 + carry
RECURSIVE ApplyB58(_, _, _)
ApplyB58(s, hi, lo) ==
    IF s.carry < 0 \/ hi < lo THEN s
    ELSE IF hi = lo THEN ApplyB58Digit(s, hi)
    ELSE ApplyB58(ApplyB58(s, hi, (lo + hi) \div 2 + 1), (lo + hi) \div 2, lo)

\* one iteration of the byte loop; s.ok is FALSE once assert(carry == 0) failed
EncodeByte(s, byte) ==
    LET Propagated(r) == [ok |-> r.carry = 0, b58 |-> r.buf]
    IN  IF ~s.ok THEN s
        ELSE Propagated(ApplyB58([buf |-> s.b58, carry |-> byte], Len(s.b58), 1))

\* the iterations for bytes[lo..hi], one after the other
RECURSIVE EncodeBytes(_, _, _, _)
EncodeBytes(s, bytes, lo, hi) ==
    IF ~s.ok \/ lo > hi THEN s
    ELSE IF lo = hi THEN EncodeByte(s, bytes[lo])
    ELSE EncodeBytes(EncodeBytes(s, bytes, lo, (lo + hi) \div 2),
                     bytes, (lo + hi) \div 2 + 1, hi)

B58BeginNoSkip(b58) == 1
\* it = b58.begin(); while (it != b58.end() && *it == 0) it++;
B58Begin(b58) == SkipZeroes(b58, 1)

\* returns the string and whether the call aborted on assert(carry == 0)
EncodeBase58(bytes) ==
    LET Translate(zeroes, b58, it) ==
            Repeat(zeroes, "1")
            \o [j \in 1..(Len(b58) - it + 1) |-> pszBase58[b58[it + j - 1] + 1]]
        Finish(zeroes, e) ==
            [str |-> Translate(zeroes, e.b58, B58Begin(e.b58)), aborted |-> ~e.ok]
        Convert(p0) ==
            Finish(p0 - 1,
                   EncodeBytes([ok |-> TRUE,
                                b58 |-> Repeat(B58Size(Len(bytes) - p0 + 1), 0)],
                               bytes, p0, Len(bytes)))
    IN  Convert(SkipZeroes(bytes, 1))

\* std::string EncodeBase58(const std::vector<unsigned char>& vch), which
\* this file calls with a payload and its four hash bytes only (&vch[0] is
\* then an element of the vector)
EncodeBase58Vector(bytes) == EncodeBase58(bytes)

-----------------------------------------------------------------------------
(* Collaborators that live outside base58.cpp. *)

\* the address strings CBitcoinAddress::IsValid() compares ToString() with
DenyList == {
    "BCcBZ6B5sTtZPS4FhJ2PaToAayNahvKeKb",
    "BN361g4da5japPhLx7wWqc11HxiVPbdyeF",
    "BKKnskrXJHoNGGDcgguWQoWWUi7LjBq13b",
    "BCdxPTgRkypzckZSM4xNMsRELJfCT7nDWF",
    "BGkhUL365iHCkyFW9jEQk8bL25ydNR6sca",
    "BKVdUtiXPMCZAJ7fA5SExkfdDk5eeZEAwy",
    "BSWAQpFvvKLTvhm6SmPFNmKqYChQgBjUBN",
    "B7j6hRMhwFt1XmSgqBKW8Y3X9G9qxF7Ejc",
    "BApTS1gS3sTuLzQxPC7EdowKrM68uMkhML",
    "BTBhrSJ5bogWjgpvyiz7RZ6krnmrt8RsuK",
    "BQVW7gDSvLus3wcrzCfN6ZWERs3buoLdNN",
    "BBtQEdH62gQeqY72qkHohLhfd2DtFcXXbz",
    "BFx4QfBMVCVC114tRNec6QXa7YkbUCTPs6",
    "B6khfsLHp8u3aKwwYPqGxBwW4pkbQSWiJ1",
    "BJoPTtpLC3KGjaKX7TRkqvJj9VwEy1DiYY",
    "BPTJkyTa6i8ugKwBoVPzT6hW9j2Es5H8qZ",
    "BLBBUjqoro3AJLTMrYyog1HrgV7NRaMgZE",
    "B9a7Ghg6XPAiRyV414pGhk8vptFopiqbmk",
    "B75B3UcYRm7We2YnRGPnZuEKWgELqw4pBL",
    "BCFnH2vSJ68ykvttcDm3etU2HYaftVzLr5",
    "B8EmGwSEq1ssYpvpQCQVG6NKDARNKpQ4wP",
    "BHshwsJnbz78uobuNM2witARiAty6BGP2Z",
    "BD5SfecatHpb9UqAQ2Aa7odDMKe7PQ9EnP",
    "BT7HaPWCm8P3LhTDUyqJxMSZakRQAgCnJi",
    "BQe7iKAGtGd8Z94AaXEebBLP3PmHXjk717",
    "BQ1dzMP2q2NgVqVUFqKoRK14jVjw842ew8",
    "BJPXescum2GUaYb94GVDSSZvSth75tPjEj",
    "BA4gm1gUxiua3cqmpPd7XxxGyiPhYp8cYX",
    "BD8AWJfPdPsWdyy7WhYkohVnYP74kbtomH",
    "BR3tfmAbqJoxXMBKHME6VXebFMu3ChQUxC",
    "BNvtKPSaMgbsCFYBaS8TaLjeUD5bw5jkwQ",
    "BEymBACGirRfvmUE883jgyGiaCPzPKMD8p",
    "BRLZzi4oRzwawtQeXJVRRG5rbsusb2Z3wJ",
    "BPr5TUt8jC2LnjcSFn3DGMuRZbDMdrrhgx",
    "BQKEgmKbyRBmNUeZs18k5BkdNtszFPb6uQ",
    "BJhbfUmTcEVaohpdR4cCVHc6WvkF4UFjHc",
    "BBEMde2Ts96YyCbrgaYs3TaCaPuQSq6h9d",
    "BCVVhnq1XPuH3UQy8soSqNjrtNfz9HGQYW",
    "BA8K4Yi9MwrTvasTqf8iYeSyxBKVh5VXc5",
    "B581HmueeRTDVFusZMbnnVcYmdGdauBQJ9",
    "BEdMd2aC1V4zrAjZYBYT6o6sfdcMmEUeSz",
    "BRgbrahbjeuCKz58DKDiJWin8vhSch38Yx",
    "BDzeDLvJZxwF1kNLcTGK3YSYre5MaKA566",
    "B7B1hua6wKzcxYXjz2JpSxdTcS52hkkCBw",
    "BRYhT1HjmgB1i7N56umYgFTrEWbTZUZCay",
    "BDjzrgBzd5yZqQzF3VRLM5BndVFZCEGfhL",
    "BCaMsajgcks9b2Agm8gyxQb6j1mmSSQ4Q4",
    "BK8e3WnvSEXMcCXdFWoyLxZGkJynZnDNKU",
    "BEiJVJfvfY8MDwCA7Zgy6z8RaL6pGwDxpv",
    "B53ZLPzbXftcxV5gQTTRJV4RiA6F3ma77m"
}

\* the 25 bytes (version, 20-byte hash, 4-byte checksum) each of them decodes to
DenyDecoded == {DecodeBase58(Chars(s), <<>>).vch : s \in DenyList}

\* a deterministic stand-in for the digest where nothing pins its value
RECURSIVE Mix(_, _, _)
Mix(bytes, p, h) ==
    IF h < 0 \/ p > Len(bytes) THEN h
    ELSE Mix(bytes, p + 1, (h * 33 + bytes[p] + 1) % 16777216)

\* the first four bytes of Hash(bytes), the double SHA-256 of hash.h.  The
\* deny-listed strings are well-formed addresses of this chain, so each of
\* them carries the digest of its own first 21 bytes; the digest of no bytes
\* is 5d f6 e0 e2; everywhere else the digest is an opaque deterministic
\* function of the bytes.
Hash4(bytes) ==
    LET Bytes(h) == <<h % 256, (h \div 256) % 256, h \div 65536, h % 251>>
        Pinned == {d \in DenyDecoded : SubSeq(d, 1, Len(d) - 4) = bytes}
        Last4(d) == SubSeq(d, Len(d) - 3, Len(d))
    IN  IF bytes = <<>> THEN <<93, 246, 224, 226>>
        ELSE IF Len(bytes) = 21 /\ Pinned # {}
        THEN Last4(CHOOSE d \in Pinned : TRUE)
        ELSE Bytes(Mix(bytes, 1, 5381))

\* Params().Base58Prefix(CChainParams::PUBKEY_ADDRESS): the version byte the
\* deny-listed addresses carry
PUBKEY_ADDRESS == <<25>>
\* Params().Base58Prefix(CChainParams::SCRIPT_ADDRESS)
SCRIPT_ADDRESS == <<85>>
\* Params().Base58Prefix(CChainParams::SECRET_KEY)
SECRET_KEY == <<212>>

\* unsigned int nVersionBytes = 1, the default argument of SetString
DefaultVersionBytes == 1

-----------------------------------------------------------------------------
(* Base58Check *)

\* std::string EncodeBase58Check(const std::vector<unsigned char>& vchIn)
EncodeBase58Check(bytes) == EncodeBase58Vector(bytes \o Hash4(bytes))

ChecksumIgnored(vchRet) == TRUE
\* memcmp(&hash, &vchRet.end()[-4], 4) == 0 for hash = Hash(vchRet.begin(),
\* vchRet.end() - 4)
ChecksumMatches(vchRet) ==
    Hash4(SubSeq(vchRet, 1, Len(vchRet) - 4))
        = SubSeq(vchRet, Len(vchRet) - 3, Len(vchRet))

\* bool DecodeBase58Check(const char* psz, std::vector<unsigned char>& vchRet)
DecodeBase58Check(psz, vchOld) ==
    LET Check(d) ==
            IF d.aborted THEN d
            ELSE IF ~d.rc \/ Len(d.vch) < 4
            THEN [rc |-> FALSE, vch |-> <<>>, aborted |-> FALSE]
            ELSE IF ~ChecksumMatches(d.vch)
            THEN [rc |-> FALSE, vch |-> <<>>, aborted |-> FALSE]
            ELSE [rc |-> TRUE, vch |-> SubSeq(d.vch, 1, Len(d.vch) - 4),
                  aborted |-> FALSE]
    IN  Check(DecodeBase58(psz, vchOld))

-----------------------------------------------------------------------------
(* CBase58Data *)

\* CBase58Data::CBase58Data()
CBase58Data == [vchVersion |-> <<>>, vchData |-> <<>>]

\* void CBase58Data::SetData(vchVersionIn, pdata, nSize)
CBase58Data_SetData(vchVersionIn, data) ==
    [vchVersion |-> vchVersionIn, vchData |-> data]

\* vchData.clear(); vchVersion.clear(); return false;
SetStringFailed(old) == [vchVersion |-> <<>>, vchData |-> <<>>]

\* OPENSSL_cleanse(&vchTemp[0], n): the first n bytes become zero
OPENSSL_cleanse(buf, n) == [i \in 1..Len(buf) |-> IF i <= n THEN 0 ELSE buf[i]]

\* bool CBase58Data::SetString(const char* psz, unsigned int nVersionBytes)
\* on the object old.  obj is the object as the call leaves it, vchTemp the
\* local buffer as the call leaves it, wiped the indices of it that
\* OPENSSL_cleanse(&vchTemp[0], vchData.size()) overwrote.  ub: the call
\* evaluated vchTemp[0] on an empty vector, which is undefined: a build
\* without library checks goes on, a build with them stops the program.
CBase58Data_SetString(old, psz, nVersionBytes) ==
    LET Split(r) ==
            IF r.aborted
            THEN [rc |-> FALSE, obj |-> old, vchTemp |-> r.vch, wiped |-> {},
                  aborted |-> TRUE, ub |-> FALSE]
            ELSE IF ~r.rc \/ Len(r.vch) < nVersionBytes
            THEN [rc |-> FALSE, obj |-> SetStringFailed(old), vchTemp |-> r.vch,
                  wiped |-> {}, aborted |-> FALSE, ub |-> FALSE]
            ELSE [rc |-> TRUE,
                  obj |-> [vchVersion |-> SubSeq(r.vch, 1, nVersionBytes),
                           vchData |-> SubSeq(r.vch, nVersionBytes + 1, Len(r.vch))],
                  vchTemp |-> OPENSSL_cleanse(r.vch, Len(r.vch) - nVersionBytes),
                  wiped |-> 1..(Len(r.vch) - nVersionBytes),
                  aborted |-> FALSE, ub |-> r.vch = <<>>]
    IN  Split(DecodeBase58Check(psz, <<>>))

\* std::string CBase58Data::ToString() const
CBase58Data_ToString(obj) == EncodeBase58Check(obj.vchVersion \o obj.vchData)

-----------------------------------------------------------------------------
(* CBitcoinAddress *)

\* bool CBitcoinAddress::Set(const CKeyID& id)
CBitcoinAddress_SetKeyID(id) == CBase58Data_SetData(PUBKEY_ADDRESS, id)

\* bool CBitcoinAddress::Set(const CScriptID& id)
CBitcoinAddress_SetScriptID(id) == CBase58Data_SetData(SCRIPT_ADDRESS, id)

\* bool CBitcoinAddress::IsValid(const CChainParams& params) const
CBitcoinAddress_IsValidParams(obj) ==
    LET fCorrectSize  == Len(obj.vchData) = 20
        fKnownVersion == obj.vchVersion = PUBKEY_ADDRESS
                         \/ obj.vchVersion = SCRIPT_ADDRESS
    IN  fCorrectSize /\ fKnownVersion

IsValidNoDenyList(obj) == CBitcoinAddress_IsValidParams(obj)
\* bool CBitcoinAddress::IsValid() const
CBitcoinAddress_IsValid(obj) ==
    LET Listed(address) == \E s \in DenyList : address = Chars(s)
    IN  IF Listed(CBase58Data_ToString(obj).str) THEN FALSE
        ELSE CBitcoinAddress_IsValidParams(obj)

CNoDestination == [tag |-> "CNoDestination"]

\* CTxDestination CBitcoinAddress::Get() const
CBitcoinAddress_Get(obj) ==
    IF ~CBitcoinAddress_IsValid(obj) THEN CNoDestination
    ELSE IF obj.vchVersion = PUBKEY_ADDRESS
    THEN [tag |-> "CKeyID", id |-> SubSeq(obj.vchData, 1, 20)]
    ELSE IF obj.vchVersion = SCRIPT_ADDRESS
    THEN [tag |-> "CScriptID", id |-> SubSeq(obj.vchData, 1, 20)]
    ELSE CNoDestination

-----------------------------------------------------------------------------
(* CBitcoinSecret *)

\* void CBitcoinSecret::SetKey(const CKey& vchSecret)
CBitcoinSecret_SetKey(vchSecret, fCompressed) ==
    CBase58Data_SetData(SECRET_KEY,
                        IF fCompressed THEN vchSecret \o <<1>> ELSE vchSecret)

\* CKey CBitcoinSecret::GetKey(): the arguments it hands to CKey::Set
CBitcoinSecret_GetKey(obj) ==
    [key |-> SubSeq(obj.vchData, 1, 32),
     fCompressed |-> Len(obj.vchData) > 32 /\ obj.vchData[33] = 1]

IsValidAnyMarker(obj) ==
    (Len(obj.vchData) = 32 \/ Len(obj.vchData) = 33) /\ obj.vchVersion = SECRET_KEY
\* bool CBitcoinSecret::IsValid() const
CBitcoinSecret_IsValid(obj) ==
    LET fExpectedFormat == Len(obj.vchData) = 32
                           \/ (Len(obj.vchData) = 33 /\ obj.vchData[33] = 1)
        fCorrectVersion == obj.vchVersion = SECRET_KEY
    IN  fExpectedFormat /\ fCorrectVersion

\* bool CBitcoinSecret::SetString(const char* pszSecret)
CBitcoinSecret_SetString(old, psz) ==
    LET Valid(r) == [r EXCEPT !.rc = r.rc /\ CBitcoinSecret_IsValid(r.obj)]
    IN  Valid(CBase58Data_SetString(old, psz, DefaultVersionBytes))

-----------------------------------------------------------------------------
(* What the caller supplies. *)

SampleBytes == {0, 1, 255}
SampleChars == {"1", "2", "z", " ", "0"}

SeqsUpTo(S, n) == UNION {[1..k -> S] : k \in 0..n}

\* the version and hash a deny-listed address stands for
DenyPayload(s) ==
    LET Strip(d) == SubSeq(d, 1, Len(d) - 4)
    IN  Strip(DecodeBase58(Chars(s), <<>>).vch)

\* 20-byte hashes: all zero, 1..20, and the hashes of two deny-listed addresses
Hashes == {Repeat(20, 0), [i \in 1..20 |-> i],
           SubSeq(DenyPayload("BCcBZ6B5sTtZPS4FhJ2PaToAayNahvKeKb"), 2, 21),
           SubSeq(DenyPayload("B53ZLPzbXftcxV5gQTTRJV4RiA6F3ma77m"), 2, 21)}

\* 32-byte private keys
Keys == {[i \in 1..32 |-> i], [i \in 1..32 |-> IF i = 32 THEN 1 ELSE 0]}

\* payloads shaped like, and unlike, an address
AddressPayloads ==
    LET h == [i \in 1..20 |-> i]
    IN  {PUBKEY_ADDRESS \o h, SCRIPT_ADDRESS \o h, <<0>> \o h,
         PUBKEY_ADDRESS \o SubSeq(h, 1, 19), SCRIPT_ADDRESS \o h \o <<0>>,
         DenyPayload("BN361g4da5japPhLx7wWqc11HxiVPbdyeF")}

\* payloads shaped like, and unlike, an exported secret key
SecretPayloads ==
    LET k == [i \in 1..32 |-> i]
    IN  {SECRET_KEY \o k, SECRET_KEY \o k \o <<1>>, SECRET_KEY \o k \o <<0>>,
         SECRET_KEY \o k \o <<1, 1>>, SECRET_KEY \o SubSeq(k, 1, 31),
         PUBKEY_ADDRESS \o k, PUBKEY_ADDRESS \o k \o <<1>>, SECRET_KEY}

ByteInputs ==
    SeqsUpTo(SampleBytes, MaxLen)
    \cup {Repeat(n, 255) : n \in 1..MaxRun}
    \cup AddressPayloads \cup SecretPayloads

TextInputs ==
    SeqsUpTo(SampleChars, MaxTextLen)
    \cup {Repeat(n, "z") : n \in 1..MaxRun}
    \cup {Chars("BCcBZ6B5sTtZPS4FhJ2PaToAayNahvKeKb"),
          Chars(" \tBKKnskrXJHoNGGDcgguWQoWWUi7LjBq13b\n"),
          Chars("BKKnskrXJHoNGGDcggu WQoWWUi7LjBq13b"),
          Chars("BKKnskrXJHoNGGDcgguWQoWWUi7LjBq13l"),
          Chars("3QJmnh")}

NoKey == [key |-> <<>>, fCompressed |-> FALSE]
NoDest == [tag |-> "unset"]

Last(s) == IF s = <<>> THEN "" ELSE s[Len(s)]
Calls(s) == {s[j] : j \in 1..Len(s)}

\* assert(carry == 0) aborts the program
Carry(failed) == IF failed THEN "carry == 0" ELSE "no"

\* what a call of SetString that evaluates vchTemp[0] on an empty vector may
\* do: stop the program there (TRUE) or go on (FALSE)
Stops(r) == IF r.ub THEN BOOLEAN ELSE {FALSE}

\* how the program stands after a call of SetString with the outcome r
SetStringEnd(r, stop) ==
    IF r.aborted THEN "carry == 0" ELSE IF stop THEN "vchTemp[0]" ELSE "no"

-----------------------------------------------------------------------------
(* The state after construction: CBase58Data::CBase58Data() clears both   *)
(* vectors of either object; the caller's string and vector are empty.     *)

Init ==
    /\ pc = <<>>
    /\ vchIn = <<>> /\ strIn = <<>> /\ str = <<>> /\ vch = <<>>
    /\ rc = FALSE /\ aborted = "no"
    /\ addr = CBase58Data /\ secret = CBase58Data
    /\ vchTemp = <<>> /\ wiped = {} /\ nVer = 0
    /\ prev = CBase58Data
    /\ dest = NoDest /\ keyIn = NoKey /\ key = NoKey

objVars == <<addr, secret, vchTemp, wiped, nVer, prev, dest, keyIn, key>>

\* the caller fills its vector
InputBytes(b) ==
    /\ pc = <<>>
    /\ pc' = <<"bytes">>
    /\ vch' = b /\ vchIn' = b
    /\ UNCHANGED <<strIn, str, rc, aborted>>
    /\ UNCHANGED objVars

\* the caller fills its string
InputText(t) ==
    /\ pc = <<>>
    /\ pc' = <<"text">>
    /\ str' = t /\ strIn' = t
    /\ UNCHANGED <<vchIn, vch, rc, aborted>>
    /\ UNCHANGED objVars

\* str = EncodeBase58(pbegin, pend) on the bytes of vch
Call_EncodeBase58 ==
    /\ aborted = "no"
    /\ \/ pc = <<"bytes">>
       \/ pc = <<"text", "DecodeBase58">> /\ rc
    /\ \E e \in {EncodeBase58(vch)} :
           /\ aborted' = Carry(e.aborted)
           /\ str' = IF e.aborted THEN str ELSE e.str
    /\ pc' = Append(pc, "EncodeBase58")
    /\ UNCHANGED <<vchIn, strIn, vch, rc>>
    /\ UNCHANGED objVars

\* rc = DecodeBase58(str, vch)
Call_DecodeBase58 ==
    /\ aborted = "no"
    /\ pc \in {<<"text">>, <<"bytes", "EncodeBase58">>}
    /\ \E d \in {DecodeBase58(str, vch)} :
           /\ aborted' = Carry(d.aborted)
           /\ rc' = d.rc
           /\ vch' = d.vch
    /\ pc' = Append(pc, "DecodeBase58")
    /\ UNCHANGED <<vchIn, strIn, str>>
    /\ UNCHANGED objVars

\* str = EncodeBase58Check(vch)
Call_EncodeBase58Check ==
    /\ aborted = "no"
    /\ pc = <<"bytes">>
    /\ \E e \in {EncodeBase58Check(vch)} :
           /\ aborted' = Carry(e.aborted)
           /\ str' = IF e.aborted THEN str ELSE e.str
    /\ pc' = Append(pc, "EncodeBase58Check")
    /\ UNCHANGED <<vchIn, strIn, vch, rc>>
    /\ UNCHANGED objVars

\* the successor of an alphabet character in the alphabet (cyclic)
NextChar(c) == pszBase58[((strchr(c) + 1) % 58) + 1]

\* a transcription error: the first or the last character of the caller's
\* string is replaced by the next alphabet character, a '0' or a space
Corrupt(atEnd, k) ==
    /\ aborted = "no"
    /\ Last(pc) \in {"EncodeBase58Check", "ToString"}
    /\ Calls(pc) \cap {"Corrupt", "SetString", "SecretSetString"} = {}
    /\ str # <<>>
    /\ \E i \in {IF atEnd THEN Len(str) ELSE 1} :
           str' = [str EXCEPT ![i] = <<NextChar(str[i]), "0", " ">>[k + 1]]
    /\ pc' = Append(pc, "Corrupt")
    /\ UNCHANGED <<vchIn, strIn, vch, rc, aborted>>
    /\ UNCHANGED objVars

\* rc = DecodeBase58Check(str, vch)
Call_DecodeBase58Check ==
    /\ aborted = "no"
    /\ pc \in {<<"text">>, <<"bytes", "EncodeBase58Check">>,
               <<"bytes", "EncodeBase58Check", "Corrupt">>}
    /\ \E d \in {DecodeBase58Check(str, vch)} :
           /\ aborted' = Carry(d.aborted)
           /\ rc' = d.rc
           /\ vch' = d.vch
    /\ pc' = Append(pc, "DecodeBase58Check")
    /\ UNCHANGED <<vchIn, strIn, str>>
    /\ UNCHANGED objVars

\* the caller holds a text it has not parsed into an object yet
HasText ==
    /\ aborted = "no"
    /\ Last(pc) \in {"text", "EncodeBase58Check", "Corrupt", "ToString"}
    /\ Calls(pc) \cap {"SetString", "SecretSetString", "DecodeBase58Check"} = {}

\* rc = addr.SetString(str, nVersionBytes)
Call_SetString(nVersionBytes) ==
    /\ HasText
    /\ \E r \in {CBase58Data_SetString(addr, str, nVersionBytes)} :
       \E stop \in Stops(r) :
           /\ aborted' = SetStringEnd(r, stop)
           /\ rc' = IF stop THEN rc ELSE r.rc
           /\ addr' = r.obj
           /\ vchTemp' = r.vchTemp /\ wiped' = r.wiped
    /\ nVer' = nVersionBytes
    /\ prev' = addr
    /\ pc' = Append(pc, "SetString")
    /\ UNCHANGED <<vchIn, strIn, str, vch, secret, dest, keyIn, key>>

\* str = addr.ToString()
Call_ToString ==
    /\ aborted = "no"
    /\ "ToString" \notin Calls(pc)
    /\ \/ Last(pc) \in {"SetKeyID", "SetScriptID"}
       \/ Last(pc) = "SetString" /\ rc
    /\ \E e \in {CBase58Data_ToString(addr)} :
           /\ aborted' = Carry(e.aborted)
           /\ str' = IF e.aborted THEN str ELSE e.str
    /\ pc' = Append(pc, "ToString")
    /\ UNCHANGED <<vchIn, strIn, vch, rc>>
    /\ UNCHANGED objVars

\* addr.Set(CKeyID(id))
Call_SetKeyID(id) ==
    /\ pc = <<>>
    /\ addr' = CBitcoinAddress_SetKeyID(id)
    /\ vchIn' = id /\ rc' = TRUE
    /\ pc' = <<"SetKeyID">>
    /\ UNCHANGED <<strIn, str, vch, aborted, secret, vchTemp, wiped, nVer, prev,
                   dest, keyIn, key>>

\* addr.Set(CScriptID(id))
Call_SetScriptID(id) ==
    /\ pc = <<>>
    /\ addr' = CBitcoinAddress_SetScriptID(id)
    /\ vchIn' = id /\ rc' = TRUE
    /\ pc' = <<"SetScriptID">>
    /\ UNCHANGED <<strIn, str, vch, aborted, secret, vchTemp, wiped, nVer, prev,
                   dest, keyIn, key>>

\* the caller has just built or parsed the address
AfterAddressCall ==
    /\ aborted = "no"
    /\ Last(pc) \in {"SetKeyID", "SetScriptID", "SetString"}

\* rc = addr.IsValid()
Call_IsValid ==
    /\ AfterAddressCall
    /\ rc' = CBitcoinAddress_IsValid(addr)
    /\ pc' = Append(pc, "IsValid")
    /\ UNCHANGED <<vchIn, strIn, str, vch, aborted>>
    /\ UNCHANGED objVars

\* rc = addr.IsValid(Params())
Call_IsValidParams ==
    /\ AfterAddressCall
    /\ rc' = CBitcoinAddress_IsValidParams(addr)
    /\ pc' = Append(pc, "IsValidParams")
    /\ UNCHANGED <<vchIn, strIn, str, vch, aborted>>
    /\ UNCHANGED objVars

\* dest = addr.Get()
Call_Get ==
    /\ AfterAddressCall
    /\ dest' = CBitcoinAddress_Get(addr)
    /\ pc' = Append(pc, "Get")
    /\ UNCHANGED <<vchIn, strIn, str, vch, rc, aborted, addr, secret,
                   vchTemp, wiped, nVer, prev, keyIn, key>>

\* secret.SetKey(CKey(k, fCompressed))
Call_SetKey(k, fCompressed) ==
    /\ pc = <<>>
    /\ secret' = CBitcoinSecret_SetKey(k, fCompressed)
    /\ keyIn' = [key |-> k, fCompressed |-> fCompressed]
    /\ pc' = <<"SetKey">>
    /\ UNCHANGED <<vchIn, strIn, str, vch, rc, aborted, addr, vchTemp, wiped, nVer,
                   prev, dest, key>>

\* str = secret.ToString()
Call_SecretToString ==
    /\ aborted = "no"
    /\ "ToString" \notin Calls(pc)
    /\ \/ Last(pc) = "SetKey"
       \/ Last(pc) = "SecretSetString" /\ rc
    /\ \E e \in {CBase58Data_ToString(secret)} :
           /\ aborted' = Carry(e.aborted)
           /\ str' = IF e.aborted THEN str ELSE e.str
    /\ pc' = Append(pc, "ToString")
    /\ UNCHANGED <<vchIn, strIn, vch, rc>>
    /\ UNCHANGED objVars

\* rc = secret.SetString(str)
Call_SecretSetString ==
    /\ HasText
    /\ \E r \in {CBitcoinSecret_SetString(secret, str)} :
       \E stop \in Stops(r) :
           /\ aborted' = SetStringEnd(r, stop)
           /\ rc' = IF stop THEN rc ELSE r.rc
           /\ secret' = r.obj
           /\ vchTemp' = r.vchTemp /\ wiped' = r.wiped
    /\ nVer' = DefaultVersionBytes
    /\ prev' = secret
    /\ pc' = Append(pc, "SecretSetString")
    /\ UNCHANGED <<vchIn, strIn, str, vch, addr, dest, keyIn, key>>

\* key = secret.GetKey(); assert(vchData.size() >= 32) aborts the program
Call_GetKey ==
    /\ aborted = "no"
    /\ Last(pc) \in {"SetKey", "SecretSetString"}
    /\ IF Len(secret.vchData) >= 32
       THEN key' = CBitcoinSecret_GetKey(secret) /\ aborted' = aborted
       ELSE key' = key /\ aborted' = "vchData.size() >= 32"
    /\ pc' = Append(pc, "GetKey")
    /\ UNCHANGED <<vchIn, strIn, str, vch, rc, addr, secret,
                   vchTemp, wiped, nVer, prev, dest, keyIn>>

Next ==
    \/ \E b \in ByteInputs : InputBytes(b)
    \/ \E t \in TextInputs : InputText(t)
    \/ Call_EncodeBase58
    \/ Call_DecodeBase58
    \/ Call_EncodeBase58Check
    \/ \E atEnd \in BOOLEAN : \E k \in 0..2 : Corrupt(atEnd, k)
    \/ Call_DecodeBase58Check
    \/ \E n \in 0..MaxVersionBytes : Call_SetString(n)
    \/ Call_ToString
    \/ \E id \in Hashes : Call_SetKeyID(id)
    \/ \E id \in Hashes : Call_SetScriptID(id)
    \/ Call_IsValid
    \/ Call_IsValidParams
    \/ Call_Get
    \/ \E k \in Keys : \E f \in BOOLEAN : Call_SetKey(k, f)
    \/ Call_SecretToString
    \/ Call_SecretSetString
    \/ Call_GetKey

Spec == Init /\ [][Next]_vars

-----------------------------------------------------------------------------
(* Properties *)

Alphabet == {pszBase58[i] : i \in 1..Len(pszBase58)}

\* the number of leading elements of s equal to x
LeadingCount(s, x) ==
    IF \A i \in 1..Len(s) : s[i] = x THEN Len(s)
    ELSE (CHOOSE i \in 1..Len(s) : s[i] # x /\ \A j \in 1..(i - 1) : s[j] = x) - 1

\* whitespace*, alphabet*, whitespace*
WellFormed(t) ==
    \E i \in 0..Len(t) : \E j \in i..Len(t) :
        /\ \A k \in 1..i : isspace(t[k])
        /\ \A k \in (i + 1)..j : t[k] \in Alphabet
        /\ \A k \in (j + 1)..Len(t) : isspace(t[k])

EndsWith(s, tail) ==
    Len(s) >= Len(tail) /\ SubSeq(s, Len(s) - Len(tail) + 1, Len(s)) = tail

\* C1: decoding the encoding of any byte sequence succeeds and returns the
\* sequence itself, leading zero bytes and the empty sequence included.
C1_RoundTrip ==
    pc = <<"bytes", "EncodeBase58", "DecodeBase58">> => rc /\ vch = vchIn

C1_Witness ==
    /\ pc = <<"bytes", "EncodeBase58", "DecodeBase58">>
    /\ Len(vchIn) >= 2 /\ vchIn[1] = 0 /\ vchIn[2] = 255
    /\ rc /\ vch = vchIn

\* C2: a byte sequence with exactly k leading zero bytes encodes to a text
\* with exactly k leading '1' characters; the empty sequence encodes to the
\* empty text and n zero bytes encode to n copies of '1'.
C2_LeadingZeroes ==
    pc = <<"bytes", "EncodeBase58">> =>
        /\ LeadingCount(str, "1") = LeadingCount(vchIn, 0)
        /\ vchIn = <<>> => str = <<>>
        /\ (\A i \in 1..Len(vchIn) : vchIn[i] = 0) => str = Repeat(Len(vchIn), "1")

C2_Witness ==
    /\ pc = <<"bytes", "EncodeBase58">>
    /\ Len(vchIn) = 3 /\ LeadingCount(vchIn, 0) = 2
    /\ Len(str) > 2 /\ LeadingCount(str, "1") = 2

\* C3: DecodeBase58 succeeds exactly on the texts made of a run of
\* whitespace, a run of alphabet characters and a run of whitespace.
C3_DecodeAccepts ==
    Last(pc) = "DecodeBase58" => (rc <=> WellFormed(str))

\* whitespace between two alphabet characters is refused
C3_Witness ==
    /\ pc = <<"text", "DecodeBase58">>
    /\ Len(strIn) = 3 /\ strIn[1] = "1" /\ strIn[2] = " " /\ strIn[3] = "2"
    /\ ~rc

\* C4: DecodeBase58Check succeeds exactly when the text decodes to at least
\* four bytes whose last four are the first four of the hash of the others;
\* it then returns the others, so it undoes EncodeBase58Check; on every
\* failure the output vector is empty.
C4_DecodeCheck ==
    LET Agrees(d) ==
            /\ rc <=> /\ d.rc /\ Len(d.vch) >= 4
                      /\ SubSeq(d.vch, Len(d.vch) - 3, Len(d.vch))
                             = Hash4(SubSeq(d.vch, 1, Len(d.vch) - 4))
            /\ rc => vch = SubSeq(d.vch, 1, Len(d.vch) - 4)
            /\ ~rc => vch = <<>>
    IN  /\ Last(pc) = "DecodeBase58Check" => Agrees(DecodeBase58(str, <<>>))
        /\ pc = <<"bytes", "EncodeBase58Check", "DecodeBase58Check">>
               => rc /\ vch = vchIn

\* a text with one wrong character: the checksum refuses it and the vector,
\* which held the payload, is left empty
C4_Witness ==
    /\ pc = <<"bytes", "EncodeBase58Check", "Corrupt", "DecodeBase58Check">>
    /\ vchIn # <<>> /\ WellFormed(str)
    /\ ~rc /\ vch = <<>>

\* C5: once SetString has returned true, every byte of the intermediate
\* decoded buffer has been overwritten with zero.
C5_BufferZeroed ==
    Last(pc) = "SetString" /\ rc =>
        /\ wiped = 1..Len(vchTemp)
        /\ \A i \in 1..Len(vchTemp) : vchTemp[i] = 0

\* C6 as stated: IsValid() is true exactly for 20 bytes of data under one of
\* the two address versions, and Get() returns None only otherwise.
C6_VersionAndSizeOnly ==
    /\ Last(pc) = "IsValid" => (rc <=> CBitcoinAddress_IsValidParams(addr))
    /\ Last(pc) = "Get" =>
           (dest = CNoDestination <=> ~CBitcoinAddress_IsValidParams(addr))

\* the payloads of the hard-coded addresses
DenyPayloads == {SubSeq(d, 1, Len(d) - 4) : d \in DenyDecoded}

\* C6 amended: IsValid() is true exactly for 20 bytes of data under one of
\* the two address versions whose address string is not one of the
\* hard-coded strings; Get() returns the key hash or the script hash of the
\* data by version when IsValid() holds, and None exactly when it does not.
C6_DenyListed ==
    LET Valid(obj) ==
            /\ Len(obj.vchData) = 20
            /\ obj.vchVersion \in {PUBKEY_ADDRESS, SCRIPT_ADDRESS}
            /\ obj.vchVersion \o obj.vchData \notin DenyPayloads
    IN  /\ Last(pc) = "IsValid" => (rc <=> Valid(addr))
        /\ Last(pc) = "IsValidParams" =>
               (rc <=> Len(addr.vchData) = 20
                       /\ addr.vchVersion \in {PUBKEY_ADDRESS, SCRIPT_ADDRESS})
        /\ Last(pc) = "Get" =>
               dest = IF ~Valid(addr) THEN CNoDestination
                      ELSE IF addr.vchVersion = PUBKEY_ADDRESS
                      THEN [tag |-> "CKeyID", id |-> addr.vchData]
                      ELSE [tag |-> "CScriptID", id |-> addr.vchData]

\* a key hash under the key-hash version that IsValid() refuses
C6_Witness ==
    /\ pc = <<"SetKeyID", "IsValid">>
    /\ Len(addr.vchData) = 20 /\ addr.vchVersion = PUBKEY_ADDRESS
    /\ ~rc

\* C7: CBitcoinSecret::SetString accepts exactly the checked texts whose
\* version is the secret-key version and whose data is 32 bytes, or 33 bytes
\* ending in 1; GetKey then returns the first 32 bytes and whether there are
\* 33; SetKey, ToString, SetString, GetKey returns the key and flag it
\* started from, and SetKey stores 33 bytes when compressed and 32 when not.
C7_SecretShape ==
    LET Shaped(d) ==
            /\ d.rc /\ Len(d.vch) >= 1
            /\ SubSeq(d.vch, 1, 1) = SECRET_KEY
            /\ \/ Len(d.vch) = 33
               \/ Len(d.vch) = 34 /\ d.vch[34] = 1
    IN  /\ Last(pc) = "SecretSetString" =>
               (rc <=> Shaped(DecodeBase58Check(str, <<>>)))
        /\ EndsWith(pc, <<"SecretSetString", "GetKey">>) /\ rc =>
               /\ aborted = "no"
               /\ key = [key |-> SubSeq(secret.vchData, 1, 32),
                         fCompressed |-> Len(secret.vchData) = 33]
        /\ pc = <<"SetKey", "ToString", "SecretSetString", "GetKey">> =>
               rc /\ aborted = "no" /\ key = keyIn
        /\ pc = <<"SetKey">> =>
               Len(secret.vchData) = IF keyIn.fCompressed THEN 33 ELSE 32

\* 33 bytes of data ending in 0 are refused
C7_Witness ==
    /\ pc = <<"bytes", "EncodeBase58Check", "SecretSetString">>
    /\ Len(vchIn) = 34 /\ vchIn[34] = 0 /\ SubSeq(vchIn, 1, 1) = SECRET_KEY
    /\ ~rc

\* what C8 says of a call of SetString that has returned
C8_Returned ==
    LET Split(d) ==
            /\ rc <=> d.rc /\ Len(d.vch) >= nVer
            /\ rc => /\ addr.vchVersion = SubSeq(d.vch, 1, nVer)
                     /\ addr.vchData = SubSeq(d.vch, nVer + 1, Len(d.vch))
                     /\ addr.vchVersion \o addr.vchData = d.vch
            /\ ~rc => addr.vchVersion = <<>> /\ addr.vchData = <<>>
        Same(d, e) == d.rc /\ e.rc /\ d.vch = e.vch
    IN  /\ Last(pc) = "SetString" /\ aborted = "no"
               => Split(DecodeBase58Check(str, <<>>))
        /\ pc = <<"text", "SetString", "ToString">> =>
               Same(DecodeBase58Check(strIn, <<>>), DecodeBase58Check(str, <<>>))

\* C8: CBase58Data::SetString returns true exactly when the text passes
\* DecodeBase58Check with at least versionLength bytes; version is then the
\* first versionLength bytes and data the others, and ToString() encodes
\* that payload again; on failure version and data are both empty.
C8_SetString ==
    /\ Last(pc) = "SetString" => aborted = "no"
    /\ C8_Returned

\* C9: neither conversion ever ends a byte or a character with a carry left;
\* assert(carry == 0) never fails.
C9_CarryZero == aborted # "carry == 0"

\* the largest digits at the largest length, through both conversions
C9_Witness ==
    /\ pc = <<"text", "DecodeBase58", "EncodeBase58">>
    /\ strIn = Repeat(MaxRun, "z")
    /\ aborted = "no"

\* C10: encoding the decoding of a text of alphabet characters returns the
\* text.
C10_TextRoundTrip ==
    /\ pc = <<"text", "DecodeBase58">> /\ (\A i \in 1..Len(strIn) : strIn[i] \in Alphabet)
           => rc
    /\ pc = <<"text", "DecodeBase58", "EncodeBase58">>
       /\ (\A i \in 1..Len(strIn) : strIn[i] \in Alphabet)
           => str = strIn

C10_Witness ==
    /\ pc = <<"text", "DecodeBase58", "EncodeBase58">>
    /\ Len(strIn) = 3 /\ strIn[1] = "1" /\ strIn[2] = "1" /\ strIn[3] = "z"
    /\ str = strIn

====
